---------------------------- MODULE Spec2Model ----------------------------
(***************************************************************************)
(* Model of migrate_test_constants.py: a batch script that rewrites        *)
(* hardcoded LLM model / provider string literals in *.test.ts files into  *)
(* references to LlmModels / LlmProviders and ensures the import exists.   *)
(*                                                                         *)
(* A text (Python str) is a sequence of one-character strings, so that     *)
(* substring tests, str.replace, str.split / join and the re.sub pattern   *)
(* are computed character by character, as the interpreter computes them.  *)
(***************************************************************************)
EXTENDS Integers, Sequences, FiniteSets, TLC

(***************************************************************************)
(* String primitives of the Python runtime used by the script.             *)
(***************************************************************************)
Min(S) == CHOOSE x \in S : \A y \in S : x <= y

\* A local variable: Let({f(v) : v \in {e}}) is f of the value of e, with e
\* evaluated once.
Let(S) == CHOOSE r \in S : TRUE

\* t[i:i+len(p)] == p
LitAt(t, i, p) ==
  /\ i >= 1
  /\ i + Len(p) - 1 <= Len(t)
  /\ (Len(p) > 0 => t[i] = p[1])
  /\ SubSeq(t, i, i + Len(p) - 1) = p

\* the start positions of the occurrences of p in t
Occurrences(t, p) ==
  Let({{i \in 1..Len(s) : LitAt(s, i, q)} : s \in {t}, q \in {p}})

\* Python `p in t`
Contains(t, p) ==
  \E s \in {t} : \E q \in {p} : \E i \in 1..Len(s) : LitAt(s, i, q)

\* Python t.startswith(p)
StartsWith(t, p) == LitAt(t, 1, p)

\* t.replace(old, new, 1): only the first occurrence
StrReplace_first(t, old, new) ==
  IF ~Contains(t, old) THEN t
  ELSE Let({SubSeq(t, 1, i - 1) \o new \o SubSeq(t, i + Len(old), Len(t)) :
              i \in {Min(Occurrences(t, old))}})

RECURSIVE StrReplace(_, _, _)
\* Python t.replace(old, new): every non-overlapping occurrence, scanning
\* from the left
StrReplace(t, old, new) ==
  IF ~Contains(t, old) THEN t
  ELSE Let({SubSeq(t, 1, i - 1) \o new
              \o Let({StrReplace(rest, old, new) :
                        rest \in {SubSeq(t, i + Len(old), Len(t))}}) :
              i \in {Min(Occurrences(t, old))}})

RECURSIVE Split(_)
\* Python t.split('\n')
Split(t) ==
  IF ~Contains(t, <<"\n">>) THEN <<t>>
  ELSE Let({<<SubSeq(t, 1, i - 1)>>
              \o Let({Split(rest) : rest \in {SubSeq(t, i + 1, Len(t))}}) :
              i \in {Min(Occurrences(t, <<"\n">>))}})

RECURSIVE Join(_)
\* Python '\n'.join(lines)
Join(lines) ==
  IF Len(lines) = 0 THEN <<>>
  ELSE IF Len(lines) = 1 THEN lines[1]
  ELSE lines[1] \o <<"\n">> \o Join(Tail(lines))

\* Python lines.insert(j, x) for the 0-based index j
ListInsert(lines, j, x) ==
  SubSeq(lines, 1, j) \o <<x>> \o SubSeq(lines, j + 1, Len(lines))

(***************************************************************************)
(* The mapping tables, in declaration order (dicts keep insertion order).  *)
(***************************************************************************)
MODEL_MAPPINGS ==
  <<
    [old |-> <<"'","g","e","m","i","n","i","-","2",".","5","-","p","r","o","'">>,
     new |-> <<"L","l","m","M","o","d","e","l","s",".","G","e","m","i","n","i","2","5","P","r","o">>],
    [old |-> <<"'","g","e","m","i","n","i","-","2",".","5","-","f","l","a","s","h","'">>,
     new |-> <<"L","l","m","M","o","d","e","l","s",".","G","e","m","i","n","i","2","5","F","l","a","s","h">>],
    [old |-> <<"'","g","e","m","i","n","i","-","2",".","0","-","f","l","a","s","h","'">>,
     new |-> <<"L","l","m","M","o","d","e","l","s",".","G","e","m","i","n","i","2","0","F","l","a","s","h">>],
    [old |-> <<"'","o","4","-","m","i","n","i","-","d","e","e","p","-","r","e","s","e","a","r","c","h","'">>,
     new |-> <<"L","l","m","M","o","d","e","l","s",".","O","4","M","i","n","i","D","e","e","p","R","e","s","e","a","r","c","h">>],
    [old |-> <<"'","o","4","-","m","i","n","i","'">>,
     new |-> <<"L","l","m","M","o","d","e","l","s",".","O","4","M","i","n","i">>],
    [old |-> <<"'","o","1","-","d","e","e","p","-","r","e","s","e","a","r","c","h","'">>,
     new |-> <<"L","l","m","M","o","d","e","l","s",".","O","1","D","e","e","p","R","e","s","e","a","r","c","h">>],
    [old |-> <<"'","g","p","t","-","4","o","'">>,
     new |-> <<"L","l","m","M","o","d","e","l","s",".","G","p","t","4","o">>],
    [old |-> <<"'","g","p","t","-","4","o","-","m","i","n","i","'">>,
     new |-> <<"L","l","m","M","o","d","e","l","s",".","G","p","t","4","o","M","i","n","i">>],
    [old |-> <<"'","c","l","a","u","d","e","-","s","o","n","n","e","t","-","4","-","5","-","2","0","2","5","0","9","2","9","'">>,
     new |-> <<"L","l","m","M","o","d","e","l","s",".","C","l","a","u","d","e","S","o","n","n","e","t","4","5","2","0","2","5","0","9","2","9">>],
    [old |-> <<"'","c","l","a","u","d","e","-","s","o","n","n","e","t","-","4","-","2","0","2","5","0","5","1","4","'">>,
     new |-> <<"L","l","m","M","o","d","e","l","s",".","C","l","a","u","d","e","S","o","n","n","e","t","4","2","0","2","5","0","5","1","4">>],
    [old |-> <<"'","c","l","a","u","d","e","-","o","p","u","s","-","4","-","5","-","2","0","2","5","1","1","0","1","'">>,
     new |-> <<"L","l","m","M","o","d","e","l","s",".","C","l","a","u","d","e","O","p","u","s","4","5","2","0","2","5","1","1","0","1">>],
    [old |-> <<"'","s","o","n","a","r","-","p","r","o","'">>,
     new |-> <<"L","l","m","M","o","d","e","l","s",".","S","o","n","a","r","P","r","o">>],
    [old |-> <<"'","i","m","a","g","e","n","-","3","'">>,
     new |-> <<"L","l","m","M","o","d","e","l","s",".","I","m","a","g","e","n","3">>],
    [old |-> <<"'","d","a","l","l","-","e","-","3","'">>,
     new |-> <<"L","l","m","M","o","d","e","l","s",".","D","a","l","l","E","3">>]
  >>

PROVIDER_MAPPINGS ==
  <<
    [old |-> <<"'","g","o","o","g","l","e","'">>,
     new |-> <<"L","l","m","P","r","o","v","i","d","e","r","s",".","G","o","o","g","l","e">>],
    [old |-> <<"'","a","n","t","h","r","o","p","i","c","'">>,
     new |-> <<"L","l","m","P","r","o","v","i","d","e","r","s",".","A","n","t","h","r","o","p","i","c">>],
    [old |-> <<"'","o","p","e","n","a","i","'">>,
     new |-> <<"L","l","m","P","r","o","v","i","d","e","r","s",".","O","p","e","n","A","I">>],
    [old |-> <<"'","p","e","r","p","l","e","x","i","t","y","'">>,
     new |-> <<"L","l","m","P","r","o","v","i","d","e","r","s",".","P","e","r","p","l","e","x","i","t","y">>]
  >>

import_statement ==
  <<"i","m","p","o","r","t"," ","{"," ","L","l","m","M","o","d","e","l","s",","," ","L","l","m","P","r","o","v","i","d","e","r","s"," ","}"," ","f","r","o","m"," ","'","@","i","n","t","e","x","u","r","a","o","s","/","l","l","m","-","c","o","n","t","r","a","c","t","'",";">>

\* list(MODEL_MAPPINGS.keys()) + list(PROVIDER_MAPPINGS.keys())
Patterns ==
  [k \in 1..(Len(MODEL_MAPPINGS) + Len(PROVIDER_MAPPINGS)) |->
     IF k <= Len(MODEL_MAPPINGS) THEN MODEL_MAPPINGS[k].old
     ELSE PROVIDER_MAPPINGS[k - Len(MODEL_MAPPINGS)].old]

\* the patterns looked for without their quotes
needs_migration_unquoted(content) ==
  \E k \in 1..Len(Patterns) :
    Contains(content, SubSeq(Patterns[k], 2, Len(Patterns[k]) - 1))

(***************************************************************************)
(* needs_migration                                                         *)
(***************************************************************************)
needs_migration(content) ==
  \E k \in 1..Len(Patterns) : Contains(content, Patterns[k])

(***************************************************************************)
(* add_import_if_needed                                                    *)
(***************************************************************************)
kw_import == <<"i","m","p","o","r","t">>
kw_from == <<"f","r","o","m">>
import_prefix == <<"i","m","p","o","r","t"," ">>
contract_tail ==
  <<"'","@","i","n","t","e","x","u","r","a","o","s","/","l","l","m","-","c","o","n","t","r","a","c","t","'",";">>
from_contract ==
  <<"f","r","o","m"," ","'","@","i","n","t","e","x","u","r","a","o","s","/","l","l","m","-","c","o","n","t","r","a","c","t","'">>
sym_LlmModels == <<"L","l","m","M","o","d","e","l","s">>
sym_LlmProviders == <<"L","l","m","P","r","o","v","i","d","e","r","s">>

\* the characters the pattern's \s matches
Whitespace == {" ", "\t", "\n", "\r", "\f"}

RECURSIVE SkipWs(_, _)
\* \s* at position i: greedy; what follows it in the pattern is never a
\* whitespace character, so the greedy end is the only end that can match
SkipWs(t, i) ==
  IF i <= Len(t) /\ t[i] \in Whitespace THEN SkipWs(t, i + 1) ELSE i

\* the position of the first "}" at or after i, 0 if there is none
CloseBrace(t, i) ==
  LET S == {j \in i..Len(t) : t[j] = "}"} IN
  IF S = {} THEN 0 ELSE Min(S)

\* r"import\s*{([^}]+)}\s*from\s*'@intexuraos/llm-contract';" matched at
\* position i: the position after the match, 0 if it does not match there
MatchEnd(t, i) ==
  IF ~LitAt(t, i, kw_import) THEN 0
  ELSE
    LET b == SkipWs(t, i + Len(kw_import)) IN
    IF ~LitAt(t, b, <<"{">>) THEN 0
    ELSE
      LET c == CloseBrace(t, b + 1) IN
      IF c <= b + 1 THEN 0
      ELSE
        LET d == SkipWs(t, c + 1) IN
        IF ~LitAt(t, d, kw_from) THEN 0
        ELSE
          LET e == SkipWs(t, d + Len(kw_from)) IN
          IF LitAt(t, e, contract_tail) THEN e + Len(contract_tail) ELSE 0

RECURSIVE re_sub(_, _)
\* re.sub(pattern, lambda m: import_statement, content), from position pos:
\* leftmost non-overlapping matches
re_sub(t, pos) ==
  IF \A i \in pos..Len(t) : MatchEnd(t, i) = 0 THEN SubSeq(t, pos, Len(t))
  ELSE Let({SubSeq(t, pos, i - 1) \o import_statement
              \o Let({re_sub(t, end) : end \in {MatchEnd(t, i)}}) :
              i \in {Min({j \in pos..Len(t) : MatchEnd(t, j) # 0})}})

\* line 61: line.startswith('import ') and 'from' in line
IsImportLine(line) == StartsWith(line, import_prefix) /\ Contains(line, kw_from)

\* lines 60-61: the number of the first import line of lines, 0 if none
FirstImportLine(lines) ==
  IF \A i \in 1..Len(lines) : ~IsImportLine(lines[i]) THEN 0
  ELSE Min({i \in 1..Len(lines) : IsImportLine(lines[i])})

\* lines.insert(i, import_statement): the new line lands before the import
InsertBeforeFirstImport(content) ==
  Let({Let({IF n = 0 THEN content
            ELSE Join(ListInsert(lines, n - 1, import_statement)) :
            n \in {FirstImportLine(lines)}}) :
       lines \in {Split(content)}})

\* a file without an import line gets the import as its first line
InsertAfterFirstImportOrPrepend(content) ==
  Let({Join(ListInsert(lines, FirstImportLine(lines), import_statement)) :
       lines \in {Split(content)}})

\* lines 59-65: insert after the first import line, else unchanged
InsertAfterFirstImport(content) ==
  Let({Let({IF n = 0 THEN content
            ELSE Join(ListInsert(lines, n, import_statement)) :
            n \in {FirstImportLine(lines)}}) :
       lines \in {Split(content)}})

add_import_if_needed(content) ==
  IF Contains(content, sym_LlmModels) /\ Contains(content, sym_LlmProviders)
  THEN content
  ELSE IF Contains(content, from_contract)
  THEN re_sub(content, 1)
  ELSE InsertAfterFirstImport(content)

(***************************************************************************)
(* migrate_file                                                            *)
(***************************************************************************)
RECURSIVE ApplyPairs_break(_, _)
\* the loop is left after the first pair that changed the text
ApplyPairs_break(content, pairs) ==
  IF Len(pairs) = 0 THEN content
  ELSE Let({IF c # content THEN c ELSE ApplyPairs_break(c, rest) :
              c \in {StrReplace(content, pairs[1].old, pairs[1].new)},
              rest \in {Tail(pairs)}})

RECURSIVE ApplyPairs(_, _)
\* for old, new in pairs: content = content.replace(old, new)
ApplyPairs(content, pairs) ==
  IF Len(pairs) = 0 THEN content
  ELSE Let({ApplyPairs(c, rest) :
              c \in {StrReplace(content, pairs[1].old, pairs[1].new)},
              rest \in {Tail(pairs)}})

\* the provider loop is missing
Substituted_models_only(content) == ApplyPairs(content, MODEL_MAPPINGS)

\* lines 81-87: the model pairs, then the provider pairs
Substituted(content) ==
  Let({ApplyPairs(c, PROVIDER_MAPPINGS) :
       c \in {ApplyPairs(content, MODEL_MAPPINGS)}})

\* The outcomes of one call of migrate_file are records:
\*   ret      the value returned
\*   before   the text on disk when the call is made
\*   after    the text on disk when it returns
\*   imported the local `content` after line 79
\*   printed  "Migrating: <path>" was written to stdout
\*   error    "Error migrating <path>: .." was written to stderr
\*   wopen    the file was opened for writing

\* lines 69-71 raise (open, read or decode): lines 93-96
read_failed(content) ==
  [ret |-> FALSE, before |-> content, after |-> content, imported |-> <<>>,
   printed |-> FALSE, error |-> TRUE, wopen |-> FALSE]

\* lines 73-74: the early return
not_needed(content) ==
  [ret |-> FALSE, before |-> content, after |-> content, imported |-> <<>>,
   printed |-> FALSE, error |-> FALSE, wopen |-> FALSE]

\* Lines 76 and 89-96, for a file that needs migration; `imported` is the
\* text after line 79 and `new` the text after line 87.  The write-back
\* succeeds, or open(.., 'w') raises and the file is as it was, or the
\* write raises after open(.., 'w') has truncated the file.
write_back(content, imported, new) ==
  { [ret |-> TRUE, before |-> content, after |-> new, imported |-> imported,
     printed |-> TRUE, error |-> FALSE, wopen |-> TRUE],
    [ret |-> FALSE, before |-> content, after |-> content,
     imported |-> imported, printed |-> TRUE, error |-> TRUE,
     wopen |-> TRUE],
    [ret |-> FALSE, before |-> content, after |-> <<>>,
     imported |-> imported, printed |-> TRUE, error |-> TRUE,
     wopen |-> TRUE] }

\* migrate_file with the progress line printed after the write-back
migrate_file_print_last(content) ==
  {read_failed(content)} \cup
    IF ~needs_migration(content) THEN {not_needed(content)}
    ELSE UNION {UNION {
             { [ret |-> TRUE, before |-> content, after |-> new,
                imported |-> imported, printed |-> TRUE, error |-> FALSE,
                wopen |-> TRUE],
               [ret |-> FALSE, before |-> content, after |-> content,
                imported |-> imported, printed |-> FALSE, error |-> TRUE,
                wopen |-> TRUE],
               [ret |-> FALSE, before |-> content, after |-> <<>>,
                imported |-> imported, printed |-> FALSE, error |-> TRUE,
                wopen |-> TRUE] } :
             new \in {Substituted(imported)}} :
           imported \in {add_import_if_needed(content)}}

\* migrate_file without the early return of lines 73-74
migrate_file_no_guard(content) ==
  {read_failed(content)} \cup
    UNION {UNION {write_back(content, imported, new) :
                    new \in {Substituted(imported)}} :
             imported \in {add_import_if_needed(content)}}

\* The outcomes of one call of migrate_file on a file whose text on disk is
\* `content`: which I/O step raises, if any, is the environment's choice.
migrate_file(content) ==
  {read_failed(content)} \cup
    IF ~needs_migration(content) THEN {not_needed(content)}
    ELSE UNION {UNION {write_back(content, imported, new) :
                         new \in {Substituted(imported)}} :
                  imported \in {add_import_if_needed(content)}}

(***************************************************************************)
(* Bounds and input texts.                                                 *)
(***************************************************************************)
\* the longest input text, in pieces
MaxPieces == 2
\* the most files discovery yields in one run of the script
MaxFiles == 2
\* the most times the script is run over the same tree
MaxRuns == 2
\* the most replacements made out of table order before the rest is applied
MaxPicks == 1
\* the most I/O operations the environment lets fail over all runs
MaxFailures == 1

\* Fragments of TypeScript test files; an input text is a concatenation of
\* at most MaxPieces of them.
Pieces ==
  <<
    \* 1: import { Foo } from '@intexuraos/llm-contract';\n
    <<"i","m","p","o","r","t"," ","{"," ","F","o","o"," ","}"," ","f","r","o","m"," ","'","@","i","n","t","e","x","u","r","a","o","s","/","l","l","m","-","c","o","n","t","r","a","c","t","'",";","\n">>,
    \* 2: import type { Foo } from '@intexuraos/llm-contract';\n
    <<"i","m","p","o","r","t"," ","t","y","p","e"," ","{"," ","F","o","o"," ","}"," ","f","r","o","m"," ","'","@","i","n","t","e","x","u","r","a","o","s","/","l","l","m","-","c","o","n","t","r","a","c","t","'",";","\n">>,
    \* 3: import {\n  Foo,\n} from '@intexuraos/llm-contract';\n
    <<"i","m","p","o","r","t"," ","{","\n"," "," ","F","o","o",",","\n","}"," ","f","r","o","m"," ","'","@","i","n","t","e","x","u","r","a","o","s","/","l","l","m","-","c","o","n","t","r","a","c","t","'",";","\n">>,
    \* 4: import { a } from 'x';\n
    <<"i","m","p","o","r","t"," ","{"," ","a"," ","}"," ","f","r","o","m"," ","'","x","'",";","\n">>,
    \* 5: const m = 'gemini-2.5-pro';\n
    <<"c","o","n","s","t"," ","m"," ","="," ","'","g","e","m","i","n","i","-","2",".","5","-","p","r","o","'",";","\n">>,
    \* 6: 'google'
    <<"'","g","o","o","g","l","e","'">>,
    \* 7: 'gpt-4o
    <<"'","g","p","t","-","4","o">>,
    \* 8: -mini'
    <<"-","m","i","n","i","'">>,
    \* 9: '
    <<"'">>,
    \* 10: // LlmModels LlmProviders\n
    <<"/","/"," ","L","l","m","M","o","d","e","l","s"," ","L","l","m","P","r","o","v","i","d","e","r","s","\n">>
  >>

RECURSIVE Concat(_)
Concat(ps) == IF Len(ps) = 0 THEN <<>> ELSE Pieces[Head(ps)] \o Concat(Tail(ps))

Texts ==
  {Concat(ps) : ps \in UNION {[1..n -> 1..Len(Pieces)] : n \in 0..MaxPieces}}

\* the texts of the files of a run over several files: a file without a
\* mapped literal and one with
DriverTexts == {Pieces[4], Pieces[5]}

(***************************************************************************)
(* State.                                                                  *)
(***************************************************************************)
VARIABLES
  disk,            \* disk[f]: the text of the discovered file f
  run,             \* the number of the current run of the script
  pc,              \* "loop": in main's for loop, "done": summary printed
  idx,             \* the next file of the discovery sequence
  migrated_count,  \* main's counter
  stdout,          \* the lines printed to stdout in this run
  stderr,          \* the lines printed to stderr in this run
  calls,           \* calls[f]: one record per migrate_file call on f
  failures,        \* the number of I/O operations that have failed
  probe            \* a function under test: its argument and result

vars ==
  <<disk, run, pc, idx, migrated_count, stdout, stderr, calls, failures, probe>>

NoProbe == [op |-> "none", arg |-> <<>>, ret |-> <<>>, order |-> <<>>]

\* main, line 105, with the files discovery will yield
InitDisk(d) ==
  /\ disk = d
  /\ run = 1
  /\ pc = "loop"
  /\ idx = 1
  /\ migrated_count = 0
  /\ stdout = <<>>
  /\ stderr = <<>>
  /\ calls = [f \in DOMAIN d |-> <<>>]
  /\ failures = 0
  /\ probe = NoProbe

\* a tree of 1..MaxFiles test files
Init == \E n \in 1..MaxFiles : \E d \in [1..n -> DriverTexts] : InitDisk(d)

\* a tree with one test file, of any text
InitFile == \E t \in Texts : InitDisk(<<t>>)

(***************************************************************************)
(* main                                                                    *)
(***************************************************************************)
\* one iteration without the try / except of migrate_file: an exception
\* leaves the loop and main
MigrateNext_abort ==
  /\ pc = "loop"
  /\ idx <= Len(disk)
  /\ \E r \in migrate_file(disk[idx]) :
       /\ r.error => failures < MaxFailures
       /\ failures' = IF r.error THEN failures + 1 ELSE failures
       /\ calls' = [calls EXCEPT ![idx] = Append(@, [run |-> run] @@ r)]
       /\ disk' = [disk EXCEPT ![idx] = r.after]
       /\ stdout' = IF r.printed THEN Append(stdout, <<"Migrating", idx>>)
                    ELSE stdout
       /\ stderr' = IF r.error THEN Append(stderr, <<"Traceback", idx>>)
                    ELSE stderr
       /\ migrated_count' = IF r.ret THEN migrated_count + 1
                            ELSE migrated_count
       /\ pc' = IF r.error THEN "aborted" ELSE pc
  /\ idx' = idx + 1
  /\ UNCHANGED <<run, probe>>

\* lines 110-112: one iteration of the loop over the discovered files
MigrateNext ==
  /\ pc = "loop"
  /\ idx <= Len(disk)
  /\ \E r \in migrate_file(disk[idx]) :
       /\ r.error => failures < MaxFailures
       /\ failures' = IF r.error THEN failures + 1 ELSE failures
       /\ calls' = [calls EXCEPT ![idx] = Append(@, [run |-> run] @@ r)]
       /\ disk' = [disk EXCEPT ![idx] = r.after]
       /\ stdout' = IF r.printed THEN Append(stdout, <<"Migrating", idx>>)
                    ELSE stdout
       /\ stderr' = IF r.error THEN Append(stderr, <<"Error migrating", idx>>)
                    ELSE stderr
       /\ migrated_count' = IF r.ret THEN migrated_count + 1
                            ELSE migrated_count
  /\ idx' = idx + 1
  /\ UNCHANGED <<run, pc, probe>>

\* line 114: the loops are exhausted, the summary line is printed
Finish ==
  /\ pc = "loop"
  /\ idx > Len(disk)
  /\ stdout' = Append(stdout, <<"Migration complete", migrated_count>>)
  /\ pc' = "done"
  /\ UNCHANGED <<disk, run, idx, migrated_count, stderr, calls, failures, probe>>

\* the script is started again over the same tree
Rerun ==
  /\ pc = "done"
  /\ run < MaxRuns
  /\ run' = run + 1
  /\ pc' = "loop"
  /\ idx' = 1
  /\ migrated_count' = 0
  /\ stdout' = <<>>
  /\ stderr' = <<>>
  /\ UNCHANGED <<disk, calls, failures, probe>>

Next == MigrateNext \/ Finish \/ Rerun

Spec == Init /\ [][Next]_vars

SpecFile == InitFile /\ [][Next]_vars

\* the interpreter runs main to its end: no step of it waits on anything
SpecFair == Init /\ [][Next]_vars /\ WF_vars(MigrateNext) /\ WF_vars(Finish)

(***************************************************************************)
(* add_import_if_needed and the substitution loops as functions of a text. *)
(***************************************************************************)
AllPairs == MODEL_MAPPINGS \o PROVIDER_MAPPINGS

InitProbe(p) ==
  /\ disk = <<>>
  /\ run = 1
  /\ pc = "done"
  /\ idx = 1
  /\ migrated_count = 0
  /\ stdout = <<>>
  /\ stderr = <<>>
  /\ calls = <<>>
  /\ failures = 0
  /\ probe = p

InitImport ==
  \E t \in Texts :
    InitProbe([op |-> "arg", arg |-> t, ret |-> <<>>, order |-> <<>>])

CallAddImport ==
  /\ probe.op = "arg"
  /\ probe' = [probe EXCEPT !.op = "add_import",
                            !.ret = add_import_if_needed(probe.arg)]
  /\ UNCHANGED <<disk, run, pc, idx, migrated_count, stdout, stderr, calls,
                 failures>>

SpecImport == InitImport /\ [][CallAddImport]_vars

\* the indices of AllPairs not in the sequence `order`, in table order
RECURSIVE Remaining(_, _)
Remaining(order, k) ==
  IF k > Len(AllPairs) THEN <<>>
  ELSE (IF \E n \in 1..Len(order) : order[n] = k THEN <<>> ELSE <<k>>)
         \o Remaining(order, k + 1)

\* probe.order: the indices of the pairs applied so far, in order
InitOrder ==
  \E t \in Texts :
    InitProbe([op |-> "subst", arg |-> t, ret |-> t, order |-> <<>>])

\* one pair, any pair not yet applied whose pattern occurs in the text, is
\* applied next
ReplaceOne ==
  /\ probe.op = "subst"
  /\ Len(probe.order) < MaxPicks
  /\ \E k \in 1..Len(AllPairs) :
       /\ \A n \in 1..Len(probe.order) : probe.order[n] # k
       /\ Contains(probe.ret, AllPairs[k].old)
       /\ probe' = [probe EXCEPT
                      !.ret = StrReplace(@, AllPairs[k].old, AllPairs[k].new),
                      !.order = Append(@, k)]
  /\ UNCHANGED <<disk, run, pc, idx, migrated_count, stdout, stderr, calls,
                 failures>>

\* the pairs not yet applied are applied in table order
ReplaceRest ==
  /\ probe.op = "subst"
  /\ LET rest == Remaining(probe.order, 1) IN
     probe' = [probe EXCEPT
                 !.op = "substituted",
                 !.ret = ApplyPairs(@, [n \in 1..Len(rest) |-> AllPairs[rest[n]]]),
                 !.order = @ \o rest]
  /\ UNCHANGED <<disk, run, pc, idx, migrated_count, stdout, stderr, calls,
                 failures>>

NextOrder == ReplaceOne \/ ReplaceRest

SpecOrder == InitOrder /\ [][NextOrder]_vars

(***************************************************************************)
(* Properties.                                                             *)
(*                                                                         *)
(* A record of calls is written once, by the step that makes the call, so  *)
(* a property of every call is stated of the call that has just returned.  *)
(***************************************************************************)
\* migrate_file has just returned from its call on file idx - 1
Returned == pc = "loop" /\ idx > 1
\* the record of that call, and of the call before it on the same file
Last == calls[idx - 1][Len(calls[idx - 1])]
HasPrevious == Returned /\ Len(calls[idx - 1]) >= 2
Previous == calls[idx - 1][Len(calls[idx - 1]) - 1]

\* the migrate_file calls made so far, as <<file, number of the call>>
Calls == {fk \in (DOMAIN calls) \X (1..MaxRuns) : fk[2] <= Len(calls[fk[1]])}
Call(fk) == calls[fk[1]][fk[2]]
\* the calls of the current run of the script
RunCalls == {fk \in Calls : Call(fk).run = run}

\* the indices of the mapped literals that occur in t
LiteralsIn(t) == {j \in 1..Len(Patterns) : Contains(t, Patterns[j])}
HasLiteral(t) == \E j \in 1..Len(Patterns) : Contains(t, Patterns[j])

NumLines(t) == Len(Split(t))

\* the lines printed to stdout that start with `Migrating:`
MigratingLines == {n \in 1..Len(stdout) : stdout[n][1] = "Migrating"}

\* C1: a text with a mapped literal that migrate_file wrote back contains
\* no occurrence of any mapped literal.
C1_NoLiteralLeft ==
  (Returned /\ Last.ret /\ HasLiteral(Last.before)) => ~HasLiteral(Last.after)

\* a file with two different mapped literals was migrated
C1_Witness ==
  Returned /\ Last.ret /\ Cardinality(LiteralsIn(Last.before)) >= 2

\* C2 as stated: every mapped literal that occurs in the input, overlapping
\* another one or not, has its replacement symbol in the text written back.
C2_EveryLiteralHasSymbol ==
  (Returned /\ Last.ret) =>
    \A j \in LiteralsIn(Last.before) : Contains(Last.after, AllPairs[j].new)

\* literal j has an occurrence in t that shares no character with an
\* occurrence of a different mapped literal
FreeOccurrence(t, j) ==
  \E i \in Occurrences(t, Patterns[j]) :
    \A j2 \in (1..Len(Patterns)) \ {j} :
      \A i2 \in Occurrences(t, Patterns[j2]) :
        \/ i2 + Len(Patterns[j2]) - 1 < i
        \/ i2 > i + Len(Patterns[j]) - 1

\* C2 amended: every mapped literal that has, in the text after the import
\* step, an occurrence overlapping no occurrence of a different mapped
\* literal has its replacement symbol in the text written back.
C2_FreeLiteralHasSymbol ==
  (Returned /\ Last.ret) =>
    \A j \in 1..Len(Patterns) :
      FreeOccurrence(Last.imported, j) => Contains(Last.after, AllPairs[j].new)

\* a migrated file whose import step changed the text and that has a
\* literal overlapping no other
C2_Witness ==
  /\ Returned
  /\ Last.ret
  /\ Last.imported # Last.before
  /\ \E j \in 1..Len(Patterns) : FreeOccurrence(Last.imported, j)

\* C3: the call of migrate_file that follows a successful one on the same
\* file returns False, does not open the file for writing and leaves its
\* text as the first call wrote it; needs_migration is false on that text.
C3_Idempotent ==
  (HasPrevious /\ Previous.ret) =>
    /\ ~Last.ret
    /\ ~Last.wopen
    /\ Last.after = Previous.after
    /\ disk[idx - 1] = Previous.after
    /\ ~needs_migration(Previous.after)

\* a file was migrated and migrate_file ran on it again
C3_Witness ==
  HasPrevious /\ Previous.ret /\ Previous.after # Previous.before

\* C4: a call on a file without a mapped literal returns False, does not
\* open the file for writing, leaves its text and prints no progress line;
\* the counter counts only the calls of this run that returned True.
C4_UntouchedWithoutLiteral ==
  /\ (Returned /\ ~HasLiteral(Last.before)) =>
       /\ ~Last.ret
       /\ ~Last.wopen
       /\ ~Last.printed
       /\ Last.after = Last.before
       /\ disk[idx - 1] = Last.before
  /\ migrated_count = Cardinality({fk \in RunCalls : Call(fk).ret})

\* a non-empty file without a mapped literal was read and passed over
C4_Witness ==
  /\ Returned
  /\ ~HasLiteral(Last.before)
  /\ Len(Last.before) > 0
  /\ ~Last.error

\* when the summary is printed: every file was attempted once in this run
\* and the summary reports the files whose migration ended without error
C5_Final ==
  pc = "done" =>
    /\ \A f \in DOMAIN disk :
         Cardinality({fk \in RunCalls : fk[1] = f}) = 1
    /\ Len(stdout) > 0
    /\ stdout[Len(stdout)] =
         <<"Migration complete",
           Cardinality({fk \in RunCalls :
                          Call(fk).printed /\ ~Call(fk).error})>>

\* C5: whatever files fail on read or on write, the driver reaches the
\* summary line, having attempted every file exactly once, and the count
\* reported is the number of files migrated without error.
C5_ErrorIsolation == [](C5_Final) /\ ((pc = "loop") ~> (pc = "done"))

\* the summary was printed after a file failed and a later one was migrated
C5_Witness ==
  /\ pc = "done"
  /\ \E a \in RunCalls : \E b \in RunCalls :
       a[1] < b[1] /\ Call(a).error /\ Call(b).ret

\* a line of t is a one-line import statement from the contract module
ContractImportLine(line) ==
  StartsWith(line, kw_import) /\ Contains(line, from_contract)

\* C6: when the text lacks one of the two symbol names and has an import
\* from the contract module, every import from that module in the result
\* is the two-symbol import.
C6_ImportRewritten ==
  (/\ probe.op = "add_import"
   /\ ~(Contains(probe.arg, sym_LlmModels) /\ Contains(probe.arg, sym_LlmProviders))
   /\ \E n \in 1..NumLines(probe.arg) : ContractImportLine(Split(probe.arg)[n]))
  => \A n \in 1..NumLines(probe.ret) :
       ContractImportLine(Split(probe.ret)[n])
         => StartsWith(Split(probe.ret)[n], import_statement)

HasImportLine(t) == \E line \in {Split(t)[n] : n \in 1..NumLines(t)} : IsImportLine(line)

\* C8 as stated: a text with a mapped literal and no import line is
\* written back with its literals substituted and nothing else changed.
C8_NoImportOnlySubstitutes ==
  (Returned /\ Last.ret /\ ~HasImportLine(Last.before)) =>
    /\ Last.after = Substituted(Last.before)
    /\ NumLines(Last.after) = NumLines(Last.before)

\* the import rewrite of lines 49-56 changes t
RewriteApplies(t) ==
  /\ ~(Contains(t, sym_LlmModels) /\ Contains(t, sym_LlmProviders))
  /\ Contains(t, from_contract)
  /\ \E i \in 1..Len(t) : MatchEnd(t, i) # 0

\* C8 amended: the same, for the texts in which the import rewrite does not
\* apply.
C8_NoImportNoRewriteOnlySubstitutes ==
  (/\ Returned
   /\ Last.ret
   /\ ~HasImportLine(Last.before)
   /\ ~RewriteApplies(Last.before)) =>
    /\ Last.after = Substituted(Last.before)
    /\ NumLines(Last.after) = NumLines(Last.before)

\* a file of several lines with a literal and no import line was migrated
C8_Witness ==
  /\ Returned
  /\ Last.ret
  /\ ~HasImportLine(Last.before)
  /\ ~RewriteApplies(Last.before)
  /\ NumLines(Last.before) >= 2
  /\ Last.after # Last.before

\* C9 as stated: a file has a `Migrating:` line exactly when it is counted,
\* and the number of these lines is the count of the summary line.
C9_ProgressIffCounted ==
  /\ \A fk \in RunCalls : Call(fk).printed <=> Call(fk).ret
  /\ pc = "done" =>
       stdout[Len(stdout)] = <<"Migration complete", Cardinality(MigratingLines)>>

\* the write-back of the call failed
WriteFailed(c) == c.wopen /\ c.error

\* C9 amended: a file has a `Migrating:` line exactly when it is counted or
\* its write-back failed, and the number of these lines is the count of the
\* summary line plus the number of files whose write-back failed.
C9_ProgressIffCountedOrWriteFailed ==
  /\ \A fk \in RunCalls :
       Call(fk).printed <=> (Call(fk).ret \/ WriteFailed(Call(fk)))
  /\ \A fk \in RunCalls :
       Call(fk).printed <=>
         \E n \in MigratingLines : stdout[n][2] = fk[1]
  /\ pc = "done" =>
       stdout[Len(stdout)] =
         <<"Migration complete",
           Cardinality(MigratingLines)
             - Cardinality({fk \in RunCalls : WriteFailed(Call(fk))})>>

\* the summary was printed in a run with a failed write-back and a
\* migrated file
C9_Witness ==
  /\ pc = "done"
  /\ \E fk \in RunCalls : WriteFailed(Call(fk))
  /\ \E fk \in RunCalls : Call(fk).ret

\* C10 as stated: the pairs applied in any order give the text they give
\* in table order.
C10_OrderIndependent ==
  probe.op = "substituted" => probe.ret = Substituted(probe.arg)

\* no occurrence of a mapped literal in t shares a character with an
\* occurrence of a different mapped literal
NoOverlap(t) ==
  \A j \in LiteralsIn(t) :
    \A i \in Occurrences(t, Patterns[j]) :
      \A j2 \in LiteralsIn(t) \ {j} :
        \A i2 \in Occurrences(t, Patterns[j2]) :
          \/ i2 + Len(Patterns[j2]) - 1 < i
          \/ i2 > i + Len(Patterns[j]) - 1

\* C10 amended: for a text in which no two occurrences of different mapped
\* literals overlap, the pairs applied in any order give the text they
\* give in table order.
C10_OrderIndependentNoOverlap ==
  (probe.op = "substituted" /\ NoOverlap(probe.arg))
    => probe.ret = Substituted(probe.arg)

\* two literals of the text were replaced against table order
C10_Witness ==
  /\ probe.op = "substituted"
  /\ NoOverlap(probe.arg)
  /\ Len(probe.order) > 0
  /\ \E j \in LiteralsIn(probe.arg) :
       j < probe.order[1] /\ probe.order[1] \in LiteralsIn(probe.arg)
=============================================================================
